---- MODULE Spec2Model ----
(***************************************************************************)
(* Model of the parrot audio pipeline (src-tauri/src/pipeline.rs,          *)
(* lib.rs, audio.rs): the start/stop lifecycle of run_pipeline, its 50 ms  *)
(* poll loop, the input (VAD) callback and the output callback.            *)
(*                                                                         *)
(* Time is an integer number of milliseconds.  Sample amplitudes are       *)
(* integers in units of 0.001, so SILENCE_THRESHOLD = 0.01 is 10.  A       *)
(* captured mono sample is stored in the buffers as its capture index; an  *)
(* Option<T> is the empty sequence (None) or a one-element sequence.       *)
(***************************************************************************)
EXTENDS Integers, Sequences, FiniteSets, TLC

\* ---------------------------------------------------------------- bounds
MaxRuns   == 2      \* run threads that start() may spawn
MaxFrames == 2      \* input-callback invocations delivered, interleaved callback
MaxTicks  == 8      \* clock horizon, in steps of the finest time step

\* ------------------------------------------------------ program constants
SILENCE_THRESHOLD           == 10
MIN_SPEECH_DURATION_MS      == 300
DEFAULT_SILENCE_DURATION_MS == 700
PRE_ROLL_MS                 == 250
POST_ROLL_MS                == 200
POLL_INTERVAL_MS            == 50
TTS_SAMPLE_RATE             == 22050

\* ------------------------------------------------------ environment inputs
TimeSteps      == {100}            \* clock steps when the callback is interleaved
LifeSteps      == {400}            \* clock steps of the lifecycle specification
MaxClock       == MaxTicks * 100
SilenceChoices == {100, 700}       \* arguments of set_silence_duration
InputRates     == {12}             \* input device sample rates (Hz, scaled)
InputChannels  == {1, 2}
OutputRates    == {22050, 44100}
OutputChannels == {2}
Patterns       == {<<0>>, <<10>>, <<50, 0>>}   \* sample amplitudes, repeated to fill
FrameLens      == {2}              \* frames per input-callback invocation
OutFrames      == {1, 2}           \* frames per output-callback invocation

Runs == 1..MaxRuns

VARIABLES
    is_running,            \* PipelineState.is_running
    stop_signal,           \* PipelineState.stop_signal: <<>> or <<r>>, r the run owning the flag
    silence_duration_ms,   \* PipelineState.silence_duration_ms
    stt_loaded,            \* SpeechToText::is_loaded()
    tts_ready,             \* TextToSpeech::is_ready()
    stt_holder,            \* run holding the PipelineState.stt mutex, 0 if free
    tts_holder,            \* run holding the PipelineState.tts mutex, 0 if free
    flag,                  \* flag[r]: the AtomicBool run r allocated at line 99
    pc,                    \* pc[r]: position of run r's thread in run_pipeline
    ctl,                   \* position of the control surface: "idle" or "stop_store"
    last_cmd,              \* the last start/stop command: "none", "spawn", "noop", "stop"
    stop_after,            \* runs spawned before some stop() call
    after_stop,            \* runs spawned by a start() that directly followed a stop()
    clock,                 \* Instant::now()
    dev,                   \* the stream configuration the devices report
    speech_start,          \* per run, Option<Instant>
    last_voice_activity,   \* per run, Option<Instant>
    audio_input_buffer,    \* per run, the segment
    pre_roll_buffer,       \* per run
    audio_output_buffer,   \* per run, the playback FIFO
    loc,                   \* loc[r]: locals of the poll loop (wake, now, buffer, text, audio)
    cb,                    \* cb[r]: locals of the input callback in progress
    status,                \* status[r]: statuses run r emitted
    nframes,               \* input-callback invocations so far
    ncaptured,             \* mono samples captured so far (next capture index - 1)
    heard,                 \* runs that were delivered a frame with RMS above the threshold
    stt_calls,             \* stt_calls[r]: segments handed to transcribe
    played,                \* played[r]: what the output callback wrote last
    consumed,              \* consumed[r]: the samples the output callback took, in order
    held,                  \* the pairs <<l, c>>: mutex l is held by context c
    at                     \* the contexts inside a pass and the lock operation each is at

lockState == <<held, at>>
backends == <<stt_loaded, tts_ready, stt_holder, tts_holder, lockState>>
shared   == <<is_running, stop_signal, silence_duration_ms, backends>>
history  == <<last_cmd, stop_after, after_stop>>
threads  == <<flag, pc, ctl, history, dev, loc, status, stt_calls>>
vadState == <<speech_start, last_voice_activity, audio_input_buffer, pre_roll_buffer>>
inputs   == <<cb, nframes, ncaptured, heard>>
outputs  == <<audio_output_buffer, played, consumed>>
vars     == <<shared, threads, vadState, inputs, outputs, clock>>

\* ----------------------------------------------------------------- helpers
None      == <<>>
Some(x)   == <<x>>
IsSome(o) == o # <<>>
Unwrap(o) == o[1]

Min(a, b) == IF a <= b THEN a ELSE b

Last(s) == s[Len(s)]

RECURSIVE SumSq(_)
SumSq(s) == IF s = <<>> THEN 0 ELSE Head(s) * Head(s) + SumSq(Tail(s))

RECURSIVE Sum(_)
Sum(s) == IF s = <<>> THEN 0 ELSE Head(s) + Sum(Tail(s))

\* Instant::duration_since saturates to zero when `earlier` is later
DurationSince(later, earlier) == IF later >= earlier THEN later - earlier ELSE 0

\* wake: what is left of the sleep of line 251; now: line 253
IdleLoc == [wake |-> 0, now |-> 0, buffer |-> <<>>, text |-> None, audio |-> None,
            resampled |-> None]
IdleCb  == [pc |-> "idle", mono |-> <<>>, first |-> 0, is_speech |-> FALSE,
            now |-> 0, speech_active |-> FALSE, is_new_speech |-> FALSE]
\* the mutexes of one run and the contexts that lock them
LockNames == {"stop_signal", "audio_manager", "last_debug_log", "speech_start",
          "last_voice_activity", "audio_input_buffer", "pre_roll_buffer",
          "audio_output_buffer", "stt", "tts"}

ContextNames == {"input", "output", "poll", "stop"}

\* the stream configurations the devices may report: every input layout and
\* every output rate occurs in one of them
\* (available: a device is selected or the host has a default one)
DevConfigs ==
    {c \in [rate : InputRates, channels : InputChannels,
            out_rate : OutputRates, out_channels : OutputChannels,
            available : {TRUE}] :
        (c.channels = 1) = (c.out_rate = TTS_SAMPLE_RATE)}

\* the same hosts with no device selected and no default device
NoDeviceConfigs == {[c EXCEPT !.available = FALSE] : c \in DevConfigs}

\* the backends after the auto-load of lib.rs run(): <<model loaded, TTS ready>>
BackendConfigs == {<<TRUE, TRUE>>, <<TRUE, FALSE>>, <<FALSE, FALSE>>}

\* ------------------------------------------------------------------- Init
\* PipelineState::new, then the model auto-load of lib.rs run(), which leaves
\* each backend configured or not depending on the files found; the locals of
\* the runs not yet started
Boot ==
    /\ is_running = FALSE
    /\ stop_signal = None
    /\ silence_duration_ms = DEFAULT_SILENCE_DURATION_MS
    /\ \E b \in BackendConfigs : stt_loaded = b[1] /\ tts_ready = b[2]
    /\ stt_holder = 0
    /\ tts_holder = 0
    /\ flag = [r \in Runs |-> FALSE]
    /\ pc = [r \in Runs |-> "none"]
    /\ ctl = "idle"
    /\ last_cmd = "none"
    /\ stop_after = {}
    /\ after_stop = {}
    /\ clock = 0
    /\ speech_start = [r \in Runs |-> None]
    /\ last_voice_activity = [r \in Runs |-> None]
    /\ audio_input_buffer = [r \in Runs |-> <<>>]
    /\ pre_roll_buffer = [r \in Runs |-> <<>>]
    /\ audio_output_buffer = [r \in Runs |-> <<>>]
    /\ loc = [r \in Runs |-> IdleLoc]
    /\ cb = [r \in Runs |-> IdleCb]
    /\ status = [r \in Runs |-> <<>>]
    /\ nframes = 0
    /\ ncaptured = 0
    /\ heard = {}
    /\ stt_calls = [r \in Runs |-> <<>>]
    /\ played = [r \in Runs |-> <<>>]
    /\ consumed = [r \in Runs |-> <<>>]
    /\ held = {}
    /\ at = {}

Init == Boot /\ dev \in DevConfigs

\* --------------------------------------------------------- control surface
Spawned == {r \in Runs : pc[r] # "none"}

\* the run id the next thread::spawn gets
NextRun == Cardinality(Spawned) + 1

\* start_pipeline without its early return
StartIsNoop_Never == FALSE

\* the early return of start_pipeline (lib.rs line 19)
StartIsNoop == is_running

\* start_pipeline: no-op when is_running(), else spawn a thread on run_pipeline
StartPipeline ==
    /\ ctl = "idle"
    /\ IF StartIsNoop
       THEN /\ last_cmd' = "noop"
            /\ UNCHANGED <<pc, after_stop>>
       ELSE /\ NextRun \in Runs
            /\ last_cmd' = "spawn"
            /\ pc' = [pc EXCEPT ![NextRun] = "spawned"]
            /\ after_stop' = IF last_cmd = "stop" THEN after_stop \cup {NextRun}
                                                 ELSE after_stop
    /\ UNCHANGED <<shared, flag, ctl, stop_after, dev, loc, status, stt_calls,
                   vadState, inputs, outputs, clock>>

\* stop_pipeline, line 349-351: take the stored flag and set it
StopTake ==
    /\ ctl = "idle"
    /\ last_cmd' = "stop"
    /\ stop_after' = stop_after \cup Spawned
    /\ IF IsSome(stop_signal)
       THEN flag' = [flag EXCEPT ![Unwrap(stop_signal)] = TRUE]
       ELSE UNCHANGED flag
    /\ stop_signal' = None
    /\ ctl' = "stop_store"
    /\ UNCHANGED <<is_running, silence_duration_ms, backends, after_stop,
                   pc, dev, loc, status, stt_calls, vadState, inputs, outputs, clock>>

\* stop_pipeline, line 352: is_running.store(false)
StopStore ==
    /\ ctl = "stop_store"
    /\ is_running' = FALSE
    /\ ctl' = "idle"
    /\ UNCHANGED <<stop_signal, silence_duration_ms, backends,
                   flag, pc, history, dev, loc, status, stt_calls,
                   vadState, inputs, outputs, clock>>

\* set_silence_duration -> PipelineState::set_silence_duration_ms
SetSilenceDuration(ms) ==
    /\ ctl = "idle"
    /\ silence_duration_ms' = ms
    /\ UNCHANGED <<is_running, stop_signal, backends, history,
                   flag, pc, ctl, dev, loc, status, stt_calls,
                   vadState, inputs, outputs, clock>>

\* ---------------------------------------------------------- text filtering
\* a text is a sequence of tokens; each token is one char, except the marker
BLANK_MARKER == "[BLANK_AUDIO]"

RawTexts == { <<>>, <<" ">>, <<"a">>, <<"e'">>, <<" ", "h", "i", " ">>,
              <<BLANK_MARKER>>, <<"h", "i", " ", BLANK_MARKER>> }

\* str::len counts bytes: the two-byte char "e'" (e acute) counts 2
ByteLen(tok) == IF tok = BLANK_MARKER THEN 13 ELSE IF tok = "e'" THEN 2 ELSE 1

RECURSIVE StrLen(_)
StrLen(t) == IF t = <<>> THEN 0 ELSE ByteLen(Head(t)) + StrLen(Tail(t))

RECURSIVE TrimStart(_)
TrimStart(t) == IF t # <<>> /\ Head(t) = " " THEN TrimStart(Tail(t)) ELSE t

RECURSIVE TrimEnd(_)
TrimEnd(t) == IF t # <<>> /\ Last(t) = " " THEN TrimEnd(SubSeq(t, 1, Len(t) - 1)) ELSE t

\* str::trim
Trim(t) == TrimEnd(TrimStart(t))

\* str::contains("[BLANK_AUDIO]")
ContainsMarker(t) == \E i \in 1..Len(t) : t[i] = BLANK_MARKER

\* the length of a text in characters
RECURSIVE CharLen(_)
CharLen(t) ==
    IF t = <<>> THEN 0
    ELSE (IF Head(t) = BLANK_MARKER THEN 13 ELSE 1) + CharLen(Tail(t))

\* the filter of pipeline.rs line 296
Usable(t) == t # <<>> /\ ~ContainsMarker(t) /\ StrLen(t) > 1

\* ------------------------------------------------------------- resampling
\* what resample_audio returns on success: about len * to / from samples
Resampled(audio, from, to) ==
    [j \in 1..((Len(audio) * to) \div from) |-> <<audio[1][1], j, "resampled">>]

\* what synthesize returns on success in cycle k: n samples at 22050 Hz
Synthesized(k, n) == [i \in 1..n |-> <<k, i, "raw">>]

AudioLens == {0, 1}

\* ------------------------------------------------------------ run_pipeline
\* positions at which the run's streams exist (lines 157-345)
StreamPcs == {"check", "sleep", "eval", "drain", "reset_start", "reset_last",
              "stt_lock", "stt_call", "filter", "tts_lock", "tts_call", "enqueue", "exit"}

\* between the entry of run_pipeline and its return
LivePcs == StreamPcs \cup {"spawned", "mark", "acquire", "streams"}

Live(r) == pc[r] \in LivePcs

Goto(r, p) == pc' = [pc EXCEPT ![r] = p]
Emit(r, s) == status' = [status EXCEPT ![r] = Append(@, s)]

\* lines 99-103: allocate the flag and store it in state.stop_signal
RunSetSignal(r) ==
    /\ pc[r] = "spawned"
    /\ flag' = [flag EXCEPT ![r] = FALSE]
    /\ stop_signal' = Some(r)
    /\ Goto(r, "mark")
    /\ UNCHANGED <<is_running, silence_duration_ms, backends, ctl, history, dev,
                   loc, status, stt_calls, vadState, inputs, outputs, clock>>

\* lines 104-105: is_running.store(true); emit "listening"
RunMark(r) ==
    /\ pc[r] = "mark"
    /\ is_running' = TRUE
    /\ Emit(r, "listening")
    /\ Goto(r, "acquire")
    /\ UNCHANGED <<stop_signal, silence_duration_ms, backends, flag, ctl, history,
                   dev, loc, stt_calls, vadState, inputs, outputs, clock>>

\* what a `?` does in run_pipeline when a device call fails: return Err
FailTo == "failed"

\* lines 108-125: read the device configuration, or return the error
RunAcquire(r) ==
    /\ pc[r] = "acquire"
    /\ \/ dev.available /\ Goto(r, "streams")
       \/ Goto(r, FailTo)
    /\ UNCHANGED <<shared, flag, ctl, history, dev, loc, status, stt_calls,
                   vadState, inputs, outputs, clock>>

\* lines 135-245: create the buffers and open both streams, or return the error
RunOpenStreams(r) ==
    /\ pc[r] = "streams"
    /\ \/ Goto(r, "check")
       \/ Goto(r, FailTo)
    /\ UNCHANGED <<shared, flag, ctl, history, dev, loc, status, stt_calls,
                   vadState, inputs, outputs, clock>>

\* line 250: while !stop_signal.load(); line 251 starts the sleep
RunCheck(r) ==
    /\ pc[r] = "check"
    /\ IF flag[r]
       THEN /\ Goto(r, "exit")
            /\ UNCHANGED loc
       ELSE /\ Goto(r, "sleep")
            /\ loc' = [loc EXCEPT ![r].wake = POLL_INTERVAL_MS]
    /\ UNCHANGED <<shared, flag, ctl, history, dev, status, stt_calls,
                   vadState, inputs, outputs, clock>>

\* lines 251-253: the sleep is over; now = Instant::now()
RunWake(r) ==
    /\ pc[r] = "sleep"
    /\ loc[r].wake = 0
    /\ loc' = [loc EXCEPT ![r].now = clock]
    /\ Goto(r, "eval")
    /\ UNCHANGED <<shared, flag, ctl, history, dev, status, stt_calls,
                   vadState, inputs, outputs, clock>>

\* the flush decision taken as soon as either duration has elapsed
ShouldProcess_Either(now, last, start, silence_ms) ==
    IF IsSome(last) /\ IsSome(start)
    THEN \/ DurationSince(now, Unwrap(last)) >= silence_ms
         \/ DurationSince(now, Unwrap(start)) >= MIN_SPEECH_DURATION_MS
    ELSE FALSE

\* lines 258-264: the flush decision on the values read under the locks
ShouldProcess(now, last, start, silence_ms) ==
    IF IsSome(last) /\ IsSome(start)
    THEN /\ DurationSince(now, Unwrap(last)) >= silence_ms
         /\ DurationSince(now, Unwrap(start)) >= MIN_SPEECH_DURATION_MS
    ELSE FALSE

\* lines 254-267: under the last_voice_activity and speech_start locks, evaluate
\* should_process and branch on it.  No other thread holds either lock across
\* one of its steps, so taking both is one step.
RunEval(r) ==
    /\ pc[r] = "eval"
    /\ IF ShouldProcess(loc[r].now, last_voice_activity[r], speech_start[r],
                        silence_duration_ms)
       THEN Goto(r, "drain")
       ELSE Goto(r, "check")
    /\ loc' = [loc EXCEPT ![r] = IdleLoc]
    /\ UNCHANGED <<shared, flag, ctl, history, dev, status, stt_calls,
                   vadState, inputs, outputs, clock>>

\* lines 269-272: std::mem::take of the segment
RunDrain(r) ==
    /\ pc[r] = "drain"
    /\ loc' = [loc EXCEPT ![r].buffer = audio_input_buffer[r]]
    /\ audio_input_buffer' = [audio_input_buffer EXCEPT ![r] = <<>>]
    /\ Goto(r, "reset_start")
    /\ UNCHANGED <<shared, flag, ctl, history, dev, status, stt_calls,
                   speech_start, last_voice_activity, pre_roll_buffer,
                   inputs, outputs, clock>>

\* line 275: *speech_start = None
RunResetStart(r) ==
    /\ pc[r] = "reset_start"
    /\ speech_start' = [speech_start EXCEPT ![r] = None]
    /\ Goto(r, "reset_last")
    /\ UNCHANGED <<shared, flag, ctl, history, dev, loc, status, stt_calls,
                   last_voice_activity, audio_input_buffer, pre_roll_buffer,
                   inputs, outputs, clock>>

\* lines 276-280: *last_voice_activity = None; a non-empty buffer starts a cycle
RunResetLast(r) ==
    /\ pc[r] = "reset_last"
    /\ last_voice_activity' = [last_voice_activity EXCEPT ![r] = None]
    /\ IF loc[r].buffer # <<>>
       THEN /\ Emit(r, "processing")
            /\ Goto(r, "stt_lock")
            /\ UNCHANGED loc
       ELSE /\ Goto(r, "check")
            /\ loc' = [loc EXCEPT ![r] = IdleLoc]
            /\ UNCHANGED status
    /\ UNCHANGED <<shared, flag, ctl, history, dev, stt_calls,
                   speech_start, audio_input_buffer, pre_roll_buffer,
                   inputs, outputs, clock>>

\* the end of a cycle that leaves out the "listening" status
EndCycle_Silent(r) ==
    /\ UNCHANGED status
    /\ loc' = [loc EXCEPT ![r] = IdleLoc]
    /\ Goto(r, "check")

\* line 336: emit "listening"; the cycle's locals are dropped
EndCycle(r) ==
    /\ Emit(r, "listening")
    /\ loc' = [loc EXCEPT ![r] = IdleLoc]
    /\ Goto(r, "check")

\* lines 284-290: lock state.stt; transcribe if a model is loaded
RunSttLock(r) ==
    /\ pc[r] = "stt_lock"
    /\ stt_holder = 0
    /\ IF stt_loaded
       THEN /\ stt_holder' = r
            /\ stt_calls' = [stt_calls EXCEPT ![r] = Append(@, loc[r].buffer)]
            /\ Goto(r, "stt_call")
            /\ UNCHANGED <<loc, status>>
       ELSE /\ EndCycle(r)
            /\ UNCHANGED <<stt_holder, stt_calls>>
    /\ UNCHANGED <<is_running, stop_signal, silence_duration_ms, stt_loaded, tts_ready, lockState,
                   tts_holder, flag, ctl, history, dev, vadState, inputs, outputs, clock>>

\* lines 286-291: transcribe returns Err (text = None) or the trimmed text of
\* stt.rs line 91; the stt mutex is released
RunSttReturn(r) ==
    /\ pc[r] = "stt_call"
    /\ stt_holder' = 0
    /\ \/ loc' = [loc EXCEPT ![r].text = None]        \* Err(..).ok() = None
       \/ \E raw \in RawTexts : loc' = [loc EXCEPT ![r].text = Some(Trim(raw))]
    /\ Goto(r, "filter")
    /\ UNCHANGED status
    /\ UNCHANGED <<is_running, stop_signal, silence_duration_ms, stt_loaded, tts_ready, lockState,
                   tts_holder, flag, ctl, history, dev, stt_calls,
                   vadState, inputs, outputs, clock>>

\* lines 293-298: trim and filter the text; emit "speaking" when it is kept
RunFilter(r) ==
    /\ pc[r] = "filter"
    /\ IF IsSome(loc[r].text) /\ Usable(Trim(Unwrap(loc[r].text)))
       THEN /\ Emit(r, "speaking")
            /\ loc' = [loc EXCEPT ![r].text = Some(Trim(Unwrap(loc[r].text)))]
            /\ Goto(r, "tts_lock")
       ELSE EndCycle(r)
    /\ UNCHANGED <<shared, flag, ctl, history, dev, stt_calls,
                   vadState, inputs, outputs, clock>>

\* lines 302-309: lock state.tts; synthesize if the backend is ready
RunTtsLock(r) ==
    /\ pc[r] = "tts_lock"
    /\ tts_holder = 0
    /\ IF tts_ready
       THEN /\ tts_holder' = r
            /\ Goto(r, "tts_call")
            /\ UNCHANGED <<loc, status>>
       ELSE /\ EndCycle(r)
            /\ UNCHANGED tts_holder
    /\ UNCHANGED <<is_running, stop_signal, silence_duration_ms, stt_loaded, tts_ready, lockState,
                   stt_holder, flag, ctl, history, dev, stt_calls,
                   vadState, inputs, outputs, clock>>

\* a resampling failure that discards the audio
ResampleFallback_Drop(audio) == <<>>

\* lines 320-323: on Err the original audio is used
ResampleFallback(audio) == audio

\* lines 316-327: the arm taken and the value of `resampled`; the resampler
\* is invoked only when the rates differ, and returns Ok or Err
ResampleOutcomes(audio, from, to) ==
    IF from # to
    THEN {[arm |-> "ok", data |-> Resampled(audio, from, to)],
          [arm |-> "err", data |-> ResampleFallback(audio)]}
    ELSE {[arm |-> "same", data |-> audio]}

\* lines 305-327: synthesize returns Err (audio = None) or its samples; the
\* tts mutex is released; the samples are resampled to the output rate
RunTtsReturn(r) ==
    /\ pc[r] = "tts_call"
    /\ tts_holder' = 0
    /\ \/ loc' = [loc EXCEPT ![r].audio = None]       \* Err(..).ok() = None
       \/ \E n \in AudioLens :
            LET audio == Synthesized(Len(stt_calls[r]), n)
            IN \E res \in ResampleOutcomes(audio, TTS_SAMPLE_RATE, dev.out_rate) :
                 loc' = [loc EXCEPT ![r].audio = Some(audio),
                                    ![r].resampled = Some(res)]
    /\ Goto(r, "enqueue")
    /\ UNCHANGED <<is_running, stop_signal, silence_duration_ms, stt_loaded, tts_ready, lockState,
                   stt_holder, flag, ctl, history, dev, status, stt_calls,
                   vadState, inputs, outputs, clock>>

\* lines 329-336: append the resampled audio, if any, to the playback
\* buffer; emit "listening"
RunEnqueue(r) ==
    /\ pc[r] = "enqueue"
    /\ EndCycle(r)
    /\ IF IsSome(loc[r].audio)
       THEN audio_output_buffer' =
               [audio_output_buffer EXCEPT ![r] = @ \o Unwrap(loc[r].resampled).data]
       ELSE UNCHANGED audio_output_buffer
    /\ UNCHANGED <<shared, flag, ctl, history, dev, stt_calls,
                   vadState, inputs, played, consumed, clock>>

\* lines 341-344: emit "stopped"; is_running.store(false); return Ok(())
RunExit(r) ==
    /\ pc[r] = "exit"
    /\ Emit(r, "stopped")
    /\ is_running' = FALSE
    /\ Goto(r, "done")
    /\ UNCHANGED <<stop_signal, silence_duration_ms, backends, flag, ctl, history,
                   dev, loc, stt_calls, vadState, inputs, outputs, clock>>

\* one step of the thread executing run_pipeline
RunStep(r) ==
    \/ RunSetSignal(r) \/ RunMark(r) \/ RunAcquire(r) \/ RunOpenStreams(r)
    \/ RunCheck(r) \/ RunWake(r) \/ RunEval(r)
    \/ RunDrain(r) \/ RunResetStart(r) \/ RunResetLast(r)
    \/ RunSttLock(r) \/ RunSttReturn(r) \/ RunFilter(r)
    \/ RunTtsLock(r) \/ RunTtsReturn(r) \/ RunEnqueue(r)
    \/ RunExit(r)

\* ------------------------------------------------------------------- time
\* positions at which a thread waits: asleep, in a device or backend call,
\* not yet scheduled, or returned
WaitPcs == {"none", "spawned", "acquire", "streams", "sleep", "stt_lock",
            "stt_call", "tts_lock", "tts_call", "done", "failed"}

Max(a, b) == IF a >= b THEN a ELSE b

\* d ms pass while every thread waits (the lock sections themselves take no
\* time at this resolution); the clock stops at the horizon, sleeps still end
TickTo(d, horizon) ==
    /\ ctl = "idle"
    /\ \A r \in Runs : pc[r] \in WaitPcs /\ cb[r].pc = "idle"
    /\ clock' = Min(clock + d, horizon)
    /\ loc' = [r \in Runs |-> [loc[r] EXCEPT !.wake = Max(0, @ - d)]]
    /\ UNCHANGED <<shared, flag, pc, ctl, history, dev, status, stt_calls,
                   vadState, inputs, outputs>>

Tick(d) == TickTo(d, MaxClock)

\* ---------------------------------------------------------- input callback
\* lines 167-173: down-mix interleaved data to mono by averaging each chunk
Mono(data, ch) ==
    IF ch > 1
    THEN [i \in 1..((Len(data) + ch - 1) \div ch) |->
            Sum(SubSeq(data, (i - 1) * ch + 1, Min(i * ch, Len(data)))) \div ch]
    ELSE data

\* the classification with rms >= SILENCE_THRESHOLD
IsSpeech_AtLeast(mono) ==
    SumSq(mono) >= SILENCE_THRESHOLD * SILENCE_THRESHOLD * Len(mono)

\* lines 176-178: rms > SILENCE_THRESHOLD, as sum of squares > threshold^2 * len
IsSpeech(mono) == SumSq(mono) > SILENCE_THRESHOLD * SILENCE_THRESHOLD * Len(mono)

\* the frame's RMS is at or below the threshold (0/0 for an empty frame is NaN,
\* which compares false with everything)
Quiet(mono) == SumSq(mono) <= SILENCE_THRESHOLD * SILENCE_THRESHOLD * Len(mono)

\* line 178 at equality: the frame's RMS is exactly the threshold
AtThreshold(mono) ==
    mono # <<>> /\ SumSq(mono) = SILENCE_THRESHOLD * SILENCE_THRESHOLD * Len(mono)

\* a pre-roll that keeps one sample more
PreRollSize_PlusOne == (dev.rate * PRE_ROLL_MS) \div 1000 + 1

\* line 140: pre_roll_size
PreRollSize == (dev.rate * PRE_ROLL_MS) \div 1000

\* lines 230-235: push each sample, evicting the oldest at capacity
RECURSIVE PushPreRoll(_, _, _)
PushPreRoll(pre, samples, size) ==
    IF samples = <<>> THEN pre
    ELSE LET kept == IF Len(pre) >= size /\ pre # <<>> THEN Tail(pre) ELSE pre
         IN PushPreRoll(Append(kept, Head(samples)), Tail(samples), size)

\* the interleaved data one callback invocation may deliver: n frames of
\* dev.channels samples each, filled with a repeated amplitude pattern
RawData == {[i \in 1..(n * dev.channels) |-> pat[((i - 1) % Len(pat)) + 1]] :
               n \in FrameLens, pat \in Patterns}

\* capture indices of the mono samples of the invocation in progress
Ids(c) == [i \in 1..Len(c.mono) |-> c.first + i - 1]

\* no silent frame is kept after the last activity
InPostRoll_Never(now, last) == FALSE

\* lines 219-223: a silent frame is kept within POST_ROLL_MS of the last activity
InPostRoll(now, last) == IsSome(last) /\ DurationSince(now, Unwrap(last)) < POST_ROLL_MS

\* the pre-roll put in front of every speech frame
SpeechAppend_Always(buf, pre, ids, is_new) == buf \o pre \o ids

\* lines 208-214: the pre-roll goes in front of the frame when the session is new
SpeechAppend(buf, pre, ids, is_new) == buf \o (IF is_new THEN pre ELSE <<>>) \o ids

\* a silent frame kept whatever the time since the last activity
PostRollAppend_Always(buf, ids, now, last) == buf \o ids

\* lines 218-224: a silent frame is kept while the post-roll window is open
PostRollAppend(buf, ids, now, last) == IF InPostRoll(now, last) THEN buf \o ids ELSE buf

\* lines 162-180: stop check, down-mix, RMS, now
CbDeliver(r, data) ==
    /\ pc[r] \in StreamPcs
    /\ cb[r].pc = "idle"
    /\ nframes' = nframes + 1
    /\ heard' = IF Quiet(Mono(data, dev.channels)) THEN heard ELSE heard \cup {r}
    /\ IF flag[r]
       THEN UNCHANGED <<cb, ncaptured>>
       ELSE LET mono == Mono(data, dev.channels)
            IN /\ cb' = [cb EXCEPT ![r] = [IdleCb EXCEPT !.pc = "read_active",
                            !.mono = mono, !.first = ncaptured + 1,
                            !.is_speech = IsSpeech(mono), !.now = clock]]
               /\ ncaptured' = ncaptured + Len(mono)
    /\ UNCHANGED <<shared, threads, vadState, outputs, clock>>

\* an invocation of the callback, while the hardware still has frames to deliver
CbBegin(r, data) == nframes < MaxFrames /\ CbDeliver(r, data)

\* lines 228-236: always update the pre-roll buffer; the callback returns.
\* Only the callback touches the pre-roll buffer, so this is part of the
\* callback's last step.
EndCallback(r) ==
    /\ pre_roll_buffer' = [pre_roll_buffer EXCEPT ![r] =
            PushPreRoll(@, Ids(cb[r]), PreRollSize)]
    /\ cb' = [cb EXCEPT ![r] = IdleCb]

\* line 192: speech_active = speech_start.is_some(); then the branch of 194/215
CbReadActive(r) ==
    /\ cb[r].pc = "read_active"
    /\ LET active == IsSome(speech_start[r])
       IN IF cb[r].is_speech
          THEN /\ cb' = [cb EXCEPT ![r].pc = "set_start"]
               /\ UNCHANGED pre_roll_buffer
          ELSE IF active
          THEN /\ cb' = [cb EXCEPT ![r].speech_active = TRUE, ![r].pc = "post_roll"]
               /\ UNCHANGED pre_roll_buffer
          ELSE EndCallback(r)
    /\ UNCHANGED <<shared, threads, speech_start, last_voice_activity,
                   audio_input_buffer, nframes, ncaptured, heard, outputs, clock>>

\* lines 195-201: open the session if none is open
CbSetStart(r) ==
    /\ cb[r].pc = "set_start"
    /\ LET is_new == ~IsSome(speech_start[r])
       IN /\ cb' = [cb EXCEPT ![r].is_new_speech = is_new, ![r].pc = "set_last"]
          /\ speech_start' = IF is_new
                             THEN [speech_start EXCEPT ![r] = Some(cb[r].now)]
                             ELSE speech_start
    /\ UNCHANGED <<shared, threads, last_voice_activity, audio_input_buffer,
                   pre_roll_buffer, nframes, ncaptured, heard, outputs, clock>>

\* line 203: *last_activity = Some(now)
CbSetLast(r) ==
    /\ cb[r].pc = "set_last"
    /\ last_voice_activity' = [last_voice_activity EXCEPT ![r] = Some(cb[r].now)]
    /\ cb' = [cb EXCEPT ![r].pc = "append"]
    /\ UNCHANGED <<shared, threads, speech_start, audio_input_buffer,
                   pre_roll_buffer, nframes, ncaptured, heard, outputs, clock>>

\* lines 205-214: append the pre-roll (new session only) and the frame
CbAppend(r) ==
    /\ cb[r].pc = "append"
    /\ audio_input_buffer' = [audio_input_buffer EXCEPT ![r] =
            SpeechAppend(@, pre_roll_buffer[r], Ids(cb[r]), cb[r].is_new_speech)]
    /\ EndCallback(r)
    /\ UNCHANGED <<shared, threads, speech_start, last_voice_activity,
                   nframes, ncaptured, heard, outputs, clock>>

\* lines 215-225: a silent frame inside a session
CbPostRoll(r) ==
    /\ cb[r].pc = "post_roll"
    /\ audio_input_buffer' = [audio_input_buffer EXCEPT ![r] =
            PostRollAppend(@, Ids(cb[r]), cb[r].now, last_voice_activity[r])]
    /\ EndCallback(r)
    /\ UNCHANGED <<shared, threads, speech_start, last_voice_activity,
                   nframes, ncaptured, heard, outputs, clock>>

\* one step of the input callback of run r
CbStep(r) ==
    \/ \E data \in RawData : CbBegin(r, data)
    \/ CbReadActive(r) \/ CbSetStart(r) \/ CbSetLast(r)
    \/ CbAppend(r) \/ CbPostRoll(r)

\* lines 161-237 run without interruption: a whole invocation of the callback
InputCallback(r, data) ==
    /\ pc[r] \in StreamPcs
    /\ cb[r].pc = "idle"
    /\ nframes < MaxFrames
    /\ nframes' = nframes + 1
    /\ heard' = IF Quiet(Mono(data, dev.channels)) THEN heard ELSE heard \cup {r}
    /\ IF flag[r]
       THEN UNCHANGED <<vadState, ncaptured>>
       ELSE LET mono   == Mono(data, dev.channels)
                ids    == [i \in 1..Len(mono) |-> ncaptured + i]
                speech == IsSpeech(mono)
                active == IsSome(speech_start[r])
            IN /\ ncaptured' = ncaptured + Len(mono)
               /\ speech_start' = IF speech /\ ~active
                                  THEN [speech_start EXCEPT ![r] = Some(clock)]
                                  ELSE speech_start
               /\ last_voice_activity' = IF speech
                                  THEN [last_voice_activity EXCEPT ![r] = Some(clock)]
                                  ELSE last_voice_activity
               /\ audio_input_buffer' = [audio_input_buffer EXCEPT ![r] =
                    IF speech
                    THEN SpeechAppend(@, pre_roll_buffer[r], ids, ~active)
                    ELSE IF active
                         THEN PostRollAppend(@, ids, clock, last_voice_activity[r])
                         ELSE @]
               /\ pre_roll_buffer' = [pre_roll_buffer EXCEPT ![r] =
                    PushPreRoll(@, ids, PreRollSize)]
    /\ UNCHANGED <<shared, threads, cb, outputs, clock>>

\* --------------------------------------------------------- output callback
\* the sample 0.0, in the shape of the synthesized samples
ZeroSample == <<0, 0, "zero">>

\* audio.rs lines 176-186: one sample per frame, copied to every channel
RECURSIVE OutputFill(_, _, _)
OutputFill(buffer, nfr, channels) ==
    IF nfr = 0 THEN <<>>
    ELSE LET sample == IF buffer # <<>> THEN Head(buffer) ELSE ZeroSample
         IN [c \in 1..channels |-> sample]
            \o OutputFill(IF buffer # <<>> THEN Tail(buffer) ELSE buffer, nfr - 1, channels)

\* pop_front dropping one sample more than it returns
OutputRest_Skip(buffer, nfr) == SubSeq(buffer, Min(nfr, Len(buffer)) + 2, Len(buffer))

\* audio.rs line 181: pop_front once per frame
OutputRest(buffer, nfr) == SubSeq(buffer, Min(nfr, Len(buffer)) + 1, Len(buffer))

\* an invocation that takes one sample whatever the number of frames
OutputTaken_One(buffer, nfr) == SubSeq(buffer, 1, Min(1, Len(buffer)))

\* the samples the pop_front calls of one invocation return
OutputTaken(buffer, nfr) == SubSeq(buffer, 1, Min(nfr, Len(buffer)))

\* audio.rs lines 176-186: one invocation for nfr frames, under the buffer lock
OutputCallback(r, nfr) ==
    /\ pc[r] \in StreamPcs
    /\ played' = [played EXCEPT ![r] = OutputFill(audio_output_buffer[r], nfr,
                                                  dev.out_channels)]
    /\ consumed' = [consumed EXCEPT ![r] = @ \o OutputTaken(audio_output_buffer[r], nfr)]
    /\ audio_output_buffer' = [audio_output_buffer EXCEPT ![r] = OutputRest(@, nfr)]
    /\ UNCHANGED <<shared, threads, vadState, inputs, clock>>

\* ---------------------------------------------------------- specifications
\* time in the lifecycle passes in steps that end every sleep of the poll loop
LifeTick  == \E d \in LifeSteps : Tick(d)

\* the steps of run_pipeline that a run takes while the microphone delivers
\* nothing: set-up, the poll loop with its flush decision, and the exit
LifeStep(r) ==
    \/ RunSetSignal(r) \/ RunMark(r) \/ RunAcquire(r) \/ RunOpenStreams(r)
    \/ RunCheck(r) \/ RunWake(r) \/ RunEval(r)
    \/ RunExit(r)

Life == \E r \in Runs : LifeStep(r)

\* the lifecycle: any interleaving of start(), stop() and up to MaxRuns run
\* threads, with no audio arriving
Next ==
    \/ StartPipeline
    \/ StopTake
    \/ StopStore
    \/ LifeTick
    \/ Life

\* without audio neither the device layout nor the backends are consulted
InitLife == Init /\ dev.channels = 1 /\ stt_loaded /\ tts_ready

Spec == InitLife /\ [][Next]_vars

\* one run, with the input callback interleaved lock section by lock section:
\* start() is called once while nothing runs, and again only while is_running
StartOnce == StartPipeline /\ (is_running \/ Spawned = {})

Run == \E r \in Runs : RunStep(r)

SetSilence == \E ms \in SilenceChoices : SetSilenceDuration(ms)
VadTick    == \E d \in TimeSteps : Tick(d)
Callback   == \E r \in Runs : CbStep(r)

NextVad ==
    \/ StartOnce
    \/ StopTake
    \/ StopStore
    \/ SetSilence
    \/ VadTick
    \/ Run
    \/ Callback

SpecVad == Init /\ [][NextVad]_vars

\* ------------------------------------------------- the speech scenario
\* a microphone at ScenRate samples/s delivering mono frames of ScenFrameMs:
\* ScenWarmMs of silence (the pre-roll fills), ScenSpeechMs of speech at
\* amplitude 0.05, then ScenSilenceMs of silence
ScenRate      == 20
ScenFrameMs   == 100
ScenWarmMs    == 300
ScenSpeechMs  == 400
ScenSilenceMs == 800
ScenAmplitude == 50
ScenFrames    == (ScenWarmMs + ScenSpeechMs + ScenSilenceMs) \div ScenFrameMs
ScenEnd       == ScenFrames * ScenFrameMs + ScenFrameMs
ScenDev       == [rate |-> ScenRate, channels |-> 1,
                  out_rate |-> TTS_SAMPLE_RATE, out_channels |-> 2,
                  available |-> TRUE]

\* samples in ms milliseconds of input
ScenSamples(ms) == (ScenRate * ms) \div 1000

\* frame k covers the time from (k-1)*ScenFrameMs to k*ScenFrameMs
ScenIsSpeech(k) ==
    /\ k * ScenFrameMs > ScenWarmMs
    /\ k * ScenFrameMs <= ScenWarmMs + ScenSpeechMs

ScenData(k) ==
    [i \in 1..ScenSamples(ScenFrameMs) |-> IF ScenIsSpeech(k) THEN ScenAmplitude ELSE 0]

\* the hardware delivers frame k when it is complete, at k*ScenFrameMs
ScenDeliver(r) ==
    /\ nframes < ScenFrames
    /\ clock = (nframes + 1) * ScenFrameMs
    /\ CbDeliver(r, ScenData(nframes + 1))

ScenCb(r) ==
    \/ ScenDeliver(r)
    \/ CbReadActive(r) \/ CbSetStart(r) \/ CbSetLast(r)
    \/ CbAppend(r) \/ CbPostRoll(r)

\* time passes, but not past a frame that is due
ScenTick ==
    /\ nframes = ScenFrames \/ clock < (nframes + 1) * ScenFrameMs
    /\ TickTo(POLL_INTERVAL_MS, ScenEnd)

\* start() is called once and stop() never: the run takes every step but the exit
ScenStart == StartPipeline /\ Spawned = {}

ScenRun(r) ==
    \/ RunSetSignal(r) \/ RunMark(r) \/ RunAcquire(r) \/ RunOpenStreams(r)
    \/ RunCheck(r) \/ RunWake(r) \/ RunEval(r)
    \/ RunDrain(r) \/ RunResetStart(r) \/ RunResetLast(r)
    \/ RunSttLock(r) \/ RunSttReturn(r) \/ RunFilter(r)
    \/ RunTtsLock(r) \/ RunTtsReturn(r) \/ RunEnqueue(r)

ScenRuns == \E r \in Runs : ScenRun(r)
ScenCbs  == \E r \in Runs : ScenCb(r)

NextScen ==
    \/ ScenStart
    \/ ScenTick
    \/ ScenRuns
    \/ ScenCbs

InitScen == Boot /\ dev = ScenDev

SpecScen == InitScen /\ [][NextScen]_vars

\* ------------------------------------------------------------ playback
\* one run with both backends configured: whole input-callback invocations,
\* processing cycles, and the output callback draining the playback buffer
PlayCapture == \E r \in Runs : \E data \in RawData : InputCallback(r, data)
PlayOutput  == \E r \in Runs : \E nfr \in OutFrames : OutputCallback(r, nfr)
PlayTick    == \E d \in LifeSteps : TickTo(d, MaxTicks * d)

NextPlay ==
    \/ ScenStart
    \/ PlayTick
    \/ ScenRuns
    \/ PlayCapture
    \/ PlayOutput

InitPlay == Init /\ stt_loaded /\ tts_ready

SpecPlay == InitPlay /\ [][NextPlay]_vars

\* one run polled at the finest time step, whole callback invocations, and
\* the silence duration changed at will
NextPoll ==
    \/ ScenStart
    \/ SetSilence
    \/ VadTick
    \/ ScenRuns
    \/ PlayCapture

SpecPoll == InitPlay /\ [][NextPoll]_vars

\* the same steps from every configuration the user may have left: with or
\* without a device, a Whisper model, a TTS voice
InitConfig == Boot /\ dev \in DevConfigs \cup NoDeviceConfigs

SpecConfig == InitConfig /\ [][NextPlay]_vars

\* the playback specification under the scheduling the platform gives: the
\* run thread steps whenever it can and time passes
FairPlay ==
    /\ SpecPlay
    /\ WF_vars(PlayTick)
    /\ \A r \in Runs : WF_vars(ScenRun(r))

\* the lifecycle under the scheduling the platform gives: every thread that
\* can step eventually does, backend calls return, stop() completes, and time
\* cannot be held back by commands that keep arriving
FairSpec ==
    /\ Spec
    /\ WF_vars(StopStore)
    /\ SF_vars(LifeTick)
    /\ \A r \in Runs : WF_vars(LifeStep(r))

\* -------------------------------------------------------------- lock order
\* The mutexes of one run and the order in which each execution context
\* locks and unlocks them.  A program is the sequence of lock operations of
\* one pass through the code; std::sync::Mutex is not re-entrant.
Lock(l)   == <<"lock", l>>
Unlock(l) == <<"unlock", l>>

\* lines 184-189 and the temporary of line 192
CbProlog == <<Lock("last_debug_log"), Unlock("last_debug_log"),
              Lock("speech_start"), Unlock("speech_start")>>

\* lines 195-203
CbMarkSpeech == <<Lock("speech_start"), Unlock("speech_start"),
                  Lock("last_voice_activity"), Unlock("last_voice_activity")>>

\* lines 229-236
CbPreRoll == <<Lock("pre_roll_buffer"), Unlock("pre_roll_buffer")>>

\* the input callback, by the branch it takes
InputProgram(path) ==
    CASE path = "new_speech" ->
            CbProlog \o CbMarkSpeech \o
            <<Lock("audio_input_buffer"), Lock("pre_roll_buffer"),
              Unlock("pre_roll_buffer"), Unlock("audio_input_buffer")>> \o CbPreRoll
      [] path = "speech" ->
            CbProlog \o CbMarkSpeech \o
            <<Lock("audio_input_buffer"), Unlock("audio_input_buffer")>> \o CbPreRoll
      [] path = "post_roll" ->
            CbProlog \o
            <<Lock("last_voice_activity"), Lock("audio_input_buffer"),
              Unlock("audio_input_buffer"), Unlock("last_voice_activity")>> \o CbPreRoll
      [] path = "past_post_roll" ->
            CbProlog \o
            <<Lock("last_voice_activity"), Unlock("last_voice_activity")>> \o CbPreRoll
      [] path = "quiet" -> CbProlog \o CbPreRoll

\* lines 254-265: both guards live to the end of the block and are dropped in
\* reverse order of declaration
PollDecide == <<Lock("last_voice_activity"), Lock("speech_start"),
                Unlock("speech_start"), Unlock("last_voice_activity")>>

\* a flush that keeps the segment lock while it resets the session
PollFlushLocks_Nested ==
    <<Lock("audio_input_buffer"),
      Lock("speech_start"), Unlock("speech_start"),
      Lock("last_voice_activity"), Unlock("last_voice_activity"),
      Unlock("audio_input_buffer")>>

\* lines 269-276
PollFlushLocks ==
    <<Lock("audio_input_buffer"), Unlock("audio_input_buffer"),
      Lock("speech_start"), Unlock("speech_start"),
      Lock("last_voice_activity"), Unlock("last_voice_activity")>>

\* run_pipeline, by how far the pass gets
PollProgram(path) ==
    CASE path = "setup" ->
            <<Lock("stop_signal"), Unlock("stop_signal"),
              Lock("audio_manager"), Unlock("audio_manager"),
              Lock("audio_manager"), Unlock("audio_manager")>>
      [] path = "no_flush" -> PollDecide
      [] path = "flush_empty" -> PollDecide \o PollFlushLocks
      [] path = "flush_stt" ->
            PollDecide \o PollFlushLocks \o <<Lock("stt"), Unlock("stt")>>
      [] path = "flush_tts" ->
            PollDecide \o PollFlushLocks \o <<Lock("stt"), Unlock("stt")>> \o
            <<Lock("tts"), Unlock("tts")>>
      [] path = "flush_play" ->
            PollDecide \o PollFlushLocks \o <<Lock("stt"), Unlock("stt")>> \o
            <<Lock("tts"), Unlock("tts")>> \o
            <<Lock("audio_output_buffer"), Unlock("audio_output_buffer")>>

Paths(c) ==
    CASE c = "input"  -> {"new_speech", "speech", "post_roll", "past_post_roll", "quiet"}
      [] c = "poll"   -> {"setup", "no_flush", "flush_empty", "flush_stt",
                          "flush_tts", "flush_play"}
      [] c = "output" -> {"fill"}
      [] c = "stop"   -> {"take"}

Program(c, path) ==
    CASE c = "input"  -> InputProgram(path)
      [] c = "poll"   -> PollProgram(path)
      [] c = "output" -> <<Lock("audio_output_buffer"), Unlock("audio_output_buffer")>>
      [] c = "stop"   -> <<Lock("stop_signal"), Unlock("stop_signal")>>

\* the context holding mutex l, if any
Holders(l) == {c \in ContextNames : <<l, c>> \in held}

InPass(c) == \E a \in at : a.ctx = c
Pos(c)    == CHOOSE a \in at : a.ctx = c
NextOp(c) == Program(c, Pos(c).path)[Pos(c).i]

Advance(c) ==
    at' = (at \ {Pos(c)}) \cup
          (IF Pos(c).i = Len(Program(c, Pos(c).path)) THEN {}
           ELSE {[Pos(c) EXCEPT !.i = @ + 1]})

LockRest == <<is_running, stop_signal, silence_duration_ms, stt_loaded, tts_ready,
              stt_holder, tts_holder, threads, vadState, inputs, outputs, clock>>

\* a context enters one pass through its code
LockBegin(c, path) ==
    /\ ~InPass(c)
    /\ path \in Paths(c)
    /\ at' = at \cup {[ctx |-> c, path |-> path, i |-> 1]}
    /\ UNCHANGED <<held, LockRest>>

\* Mutex::lock: blocks while the mutex is held, by anyone
LockAcquire(c) ==
    /\ InPass(c)
    /\ NextOp(c)[1] = "lock"
    /\ Holders(NextOp(c)[2]) = {}
    /\ held' = held \cup {<<NextOp(c)[2], c>>}
    /\ Advance(c)
    /\ UNCHANGED LockRest

\* the guard is dropped
LockRelease(c) ==
    /\ InPass(c)
    /\ NextOp(c)[1] = "unlock"
    /\ held' = held \ {<<NextOp(c)[2], c>>}
    /\ Advance(c)
    /\ UNCHANGED LockRest

LockBegins   == \E c \in ContextNames : \E path \in Paths(c) : LockBegin(c, path)
LockAcquires == \E c \in ContextNames : LockAcquire(c)
LockReleases == \E c \in ContextNames : LockRelease(c)

NextLock ==
    \/ LockBegins
    \/ LockAcquires
    \/ LockReleases

InitLock == Boot /\ dev = ScenDev /\ stt_loaded /\ tts_ready

SpecLock == InitLock /\ [][NextLock]_vars

\* ------------------------------------------------------------------ claims
\* run r is inside run_pipeline: it executed line 99 and has not returned
Entered(r) == pc[r] \in LivePcs \ {"spawned"}

\* C1: at most one execution of run_pipeline is live at any time, for every
\* interleaving of start() and stop()
C1_AtMostOneLiveRun == Cardinality({r \in Runs : Entered(r)}) <= 1

\* C2: a run that was spawned before a stop() call eventually returns
\* (completes its cycle, observes its flag, emits "stopped", clears running)
C2_StoppedRunReturns == \A r \in Runs : (r \in stop_after) ~> (pc[r] \in {"done", "failed"})

\* C3: once the cancellation flag of a run is set, the run takes no positive
\* flush decision, drains no segment and starts no STT call
C3_NoCycleAfterStop ==
    [][\A r \in Runs : flag[r] =>
          /\ ~(pc[r] = "eval" /\ pc'[r] = "drain")
          /\ ~(pc[r] = "drain" /\ pc'[r] = "reset_start")
          /\ ~(pc[r] = "stt_lock" /\ pc'[r] = "stt_call")]_vars

\* C4: a run that returned a device/stream error has emitted "stopped" after
\* its "listening", and is_running() is false unless another run is live
C4_FatalErrorReported ==
    \A r \in Runs : pc[r] = "failed" =>
        /\ status[r] # <<>> /\ Last(status[r]) = "stopped"
        /\ (\A q \in Runs \ {r} : ~Live(q)) => ~is_running

\* no thread is between two writes of one lifecycle operation
Settled == ctl = "idle" /\ \A r \in Runs : pc[r] \notin {"mark", "exit"}

\* C5: is_running() is true iff stop_signal holds a flag that the poll loop of
\* its run has not observed as set (whenever no lifecycle operation is midway)
C5_RunningIffSignal ==
    Settled =>
        (is_running <=> (IsSome(stop_signal)
                         /\ pc[Unwrap(stop_signal)] \notin {"exit", "done"}))

\* C6: a start() call made while is_running() is true spawns no run thread,
\* allocates no flag, opens no stream and changes nothing but the record of
\* the call itself
C6_StartWhileRunningIsNoop ==
    [][/\ is_running => \A r \in Runs : pc[r] = "none" => pc'[r] = "none"
       /\ (last_cmd' = "noop" /\ last_cmd # "noop") =>
             /\ is_running
             /\ UNCHANGED <<shared, flag, pc, ctl, stop_after, after_stop, dev, loc,
                            status, stt_calls, vadState, inputs, outputs, clock>>]_vars

\* C6 witness: a start() call has returned as a no-op while a run was in its loop
C6_Witness == last_cmd = "noop" /\ is_running /\ \E r \in Runs : pc[r] \in StreamPcs

\* C7: a run spawned by a start() that followed a stop() has its own unset flag
\* in stop_signal, emitted "listening" first, and is_running() is true for it
\* until a stop() is called for it
C7_CleanRestart ==
    \A r \in after_stop :
        (pc[r] \in StreamPcs \cup {"acquire", "streams"} /\ r \notin stop_after) =>
            /\ is_running
            /\ stop_signal = Some(r)
            /\ ~flag[r]
            /\ status[r] # <<>> /\ Head(status[r]) = "listening"

\* the flush condition on the state the poll tick reads, in plain arithmetic
FlushDue(r) ==
    /\ speech_start[r] # <<>>
    /\ last_voice_activity[r] # <<>>
    /\ loc[r].now - last_voice_activity[r][1] >= silence_duration_ms
    /\ loc[r].now - speech_start[r][1] >= 300

\* C8: a poll tick goes on to drain the segment iff a session is open, the
\* silence has lasted the silence duration stored at that tick and the session
\* is at least MIN_SPEECH_DURATION_MS old; nothing else leads to a drain, and
\* only the drain takes samples out of the segment
C8_FlushIff ==
    [][\A r \in Runs :
          /\ (pc[r] = "eval" /\ pc'[r] # "eval") => ((pc'[r] = "drain") <=> FlushDue(r))
          /\ (pc[r] # "drain" /\ pc'[r] = "drain") => pc[r] = "eval"
          /\ Len(audio_input_buffer'[r]) < Len(audio_input_buffer[r]) => pc[r] = "drain"]_vars

\* C8 witness: a tick decided to flush under a silence duration that
\* set_silence_duration_ms changed while the pipeline ran
C8_Witness ==
    \E r \in Runs : /\ pc[r] = "drain"
                    /\ silence_duration_ms # DEFAULT_SILENCE_DURATION_MS
                    /\ audio_input_buffer[r] # <<>>

\* C9: the invocation of the input callback that opens a session (speech_start
\* None -> Some) puts the pre-roll contents, once, in front of its own frame;
\* every other invocation appends at most its own frame
C9_PreRollOncePerSession ==
    [][\A r \in Runs :
          /\ (cb[r].pc = "set_start" /\ cb'[r].pc # "set_start") =>
                (cb'[r].is_new_speech <=> (speech_start[r] = <<>> /\ speech_start'[r] # <<>>))
          /\ (speech_start[r] = <<>> /\ speech_start'[r] # <<>>) => cb[r].pc = "set_start"
          /\ (cb[r].pc = "append" /\ cb'[r].pc # "append") =>
                audio_input_buffer'[r] =
                    IF cb[r].is_new_speech
                    THEN audio_input_buffer[r] \o pre_roll_buffer[r] \o Ids(cb[r])
                    ELSE audio_input_buffer[r] \o Ids(cb[r])
          /\ (cb[r].pc # "append" /\ pc[r] # "drain") =>
                audio_input_buffer'[r] \in {audio_input_buffer[r],
                                            audio_input_buffer[r] \o Ids(cb[r])}]_vars

\* C9 witness: a session was opened by the second frame; the segment holds the
\* pre-roll (the first frame) once, then the second frame
C9_Witness ==
    \E r \in Runs : /\ cb[r].pc = "idle"
                    /\ speech_start[r] # <<>>
                    /\ audio_input_buffer[r] = <<1, 2, 3, 4>>

\* C10: a frame whose RMS is not strictly above SILENCE_THRESHOLD never opens
\* a session: speech_start goes from None to Some only while the callback
\* handles a frame with sum of squares > threshold^2 * length
C10_QuietFrameOpensNoSession ==
    [][\A r \in Runs :
          (speech_start[r] = <<>> /\ speech_start'[r] # <<>>) =>
              /\ cb[r].pc # "idle"
              /\ SumSq(cb[r].mono) > 100 * Len(cb[r].mono)]_vars

\* C10 witness: the callback classified a frame whose RMS equals the threshold
\* while no session was open
C10_Witness ==
    \E r \in Runs : /\ cb[r].pc = "read_active"
                    /\ AtThreshold(cb[r].mono)
                    /\ ~cb[r].is_speech
                    /\ speech_start[r] = <<>>

\* run r's flush is half done: the segment is drained, a reset is still due
HalfFlushed(r) == pc[r] \in {"reset_start", "reset_last"}

\* C11: when a flush completes (the second reset is done), no session is in
\* progress and the segment is empty: speech_start and last_voice_activity
\* are None and the shared segment buffer is the fresh empty one
C11_ResetAfterFlush ==
    [][\A r \in Runs :
          (pc[r] = "reset_last" /\ pc'[r] # "reset_last") =>
              /\ speech_start'[r] = None
              /\ last_voice_activity'[r] = None
              /\ audio_input_buffer'[r] = <<>>]_vars

\* C12: a flush is atomic with respect to the input callback: between the
\* drain and the last reset no invocation of the callback reads or writes the
\* VAD state or the segment
C12_FlushAtomic ==
    [][\A r \in Runs :
          HalfFlushed(r) => ~(cb[r].pc # "idle" /\ cb'[r] # cb[r])]_vars

\* the scenario is over for run r: every frame was delivered and handled, the
\* end time is reached, and the poll loop has just gone through a tick at it
ScenDone(r) ==
    /\ nframes = ScenFrames
    /\ clock = ScenEnd
    /\ cb[r].pc = "idle"
    /\ pc[r] = "sleep"
    /\ loc[r].wake = POLL_INTERVAL_MS

\* the segment the scenario nominally produces: pre-roll, speech, post-roll
ScenNominal == ScenSamples(PRE_ROLL_MS) + ScenSamples(ScenSpeechMs) + ScenSamples(POST_ROLL_MS)

\* C13: with the default silence duration and a warm pre-roll, 400 ms of
\* speech followed by 800 ms of silence gives exactly one STT call (never
\* more, and one once the scenario is over, a model being loaded), on a
\* segment of pre-roll + speech + post-roll samples, give or take one frame
C13_ScenarioOneSttCall ==
    \A r \in Runs :
        /\ Len(stt_calls[r]) <= 1
        /\ (ScenDone(r) /\ stt_loaded) => Len(stt_calls[r]) = 1
        /\ \A i \in 1..Len(stt_calls[r]) :
              /\ Len(stt_calls[r][i]) >= ScenNominal - ScenSamples(ScenFrameMs)
              /\ Len(stt_calls[r][i]) <= ScenNominal + ScenSamples(ScenFrameMs)

\* C13 witness: the scenario is over and the one STT call was made
C13_Witness ==
    \E r \in Runs : ScenDone(r) /\ Len(stt_calls[r]) = 1 /\ silence_duration_ms = 700

\* C14: a run whose input frames all had an RMS at or below the threshold
\* never calls the STT backend, whatever the silence duration is set to
C14_SilenceNeverTranscribed ==
    \A r \in Runs : r \notin heard => stt_calls[r] = <<>> /\ pc[r] # "stt_call"

\* C14 witness: two quiet frames went through the callback of a run, the
\* silence duration was shortened, and the poll loop is deciding at 700 ms
C14_Witness ==
    \E r \in Runs : /\ r \notin heard
                    /\ Len(pre_roll_buffer[r]) >= 3
                    /\ silence_duration_ms = 100
                    /\ clock >= 700
                    /\ pc[r] = "eval"

\* a trimmed text that is to be spoken: non-empty, not the blank-audio
\* marker, and longer than one character
Speakable(t) == t # <<>> /\ t # <<BLANK_MARKER>> /\ CharLen(t) > 1

\* C15: a cycle goes on to the TTS backend iff the trimmed STT text is
\* non-empty, is not the marker "[BLANK_AUDIO]" and is longer than one
\* character; otherwise nothing is enqueued and the run is listening again
C15_TtsIffSpeakable ==
    [][\A r \in Runs :
          (pc[r] = "filter" /\ pc'[r] # "filter" /\ IsSome(loc[r].text)) =>
              /\ (pc'[r] = "tts_lock") <=> Speakable(Trim(Unwrap(loc[r].text)))
              /\ pc'[r] # "tts_lock" =>
                    /\ pc'[r] = "check"
                    /\ Last(status'[r]) = "listening"
                    /\ audio_output_buffer'[r] = audio_output_buffer[r]]_vars

\* s is a prefix of t
IsPrefix(s, t) == Len(s) <= Len(t) /\ SubSeq(t, 1, Len(s)) = s

\* sample a was synthesized before sample b: earlier cycle, or earlier in it
SynthBefore(a, b) == a[1] < b[1] \/ (a[1] = b[1] /\ a[2] < b[2])

\* everything run r enqueued so far, in the order the output callback gets it
PlaybackStream(r) == consumed[r] \o audio_output_buffer[r]

\* C16: the output callback gets the synthesized samples in the order the
\* controller appended them: cycle k before cycle k+1, the order within a
\* cycle kept, and no step loses, duplicates or reorders a sample
C16_PlaybackOrder ==
    /\ [](\A r \in Runs : \A i, j \in 1..Len(PlaybackStream(r)) :
             i < j => SynthBefore(PlaybackStream(r)[i], PlaybackStream(r)[j]))
    /\ [][\A r \in Runs :
             /\ IsPrefix(consumed[r], consumed'[r])
             /\ IsPrefix(PlaybackStream(r), consumed'[r] \o audio_output_buffer'[r])]_vars

\* C16 witness: the callback took the two samples of the first cycle and then
\* the audio of the second cycle
C16_Witness ==
    \E r \in Runs : /\ Len(consumed[r]) >= 3
                    /\ consumed[r][1][1] = 1
                    /\ consumed[r][2][1] = 1
                    /\ consumed[r][3][1] = 2

\* C17: an invocation of the output callback for n frames takes
\* min(n, buffer length) samples, one per frame, writes each to every channel
\* of its frame, and fills the frames left (buffer empty) with 0.0
C17_OutputCallbackFills ==
    [][\A r \in Runs :
          (played'[r] # played[r] \/ consumed'[r] # consumed[r]) =>
              LET ch == dev.out_channels
                  n  == Len(played'[r]) \div ch
                  k  == IF n <= Len(audio_output_buffer[r])
                        THEN n ELSE Len(audio_output_buffer[r])
              IN /\ Len(played'[r]) = n * ch
                 /\ consumed'[r] = consumed[r] \o SubSeq(audio_output_buffer[r], 1, k)
                 /\ audio_output_buffer'[r] =
                        SubSeq(audio_output_buffer[r], k + 1, Len(audio_output_buffer[r]))
                 /\ \A f \in 1..n : \A c \in 1..ch :
                        played'[r][(f - 1) * ch + c] =
                            IF f <= k THEN audio_output_buffer[r][f] ELSE ZeroSample]_vars

\* C17 witness: an invocation for two frames found one sample: it wrote the
\* sample to both channels of the first frame and silence to the second
C17_Witness ==
    \E r \in Runs : /\ Len(played[r]) = 4
                    /\ played[r][1] # ZeroSample /\ played[r][2] = played[r][1]
                    /\ played[r][3] = ZeroSample /\ played[r][4] = ZeroSample
                    /\ audio_output_buffer[r] = <<>>

\* the phase an observer is in after one more status event; "bad" when the
\* event is not a transition of Idle -> Listening -> (Processing ->
\* [Speaking ->] Listening)* -> Stopped
PhaseAfter(phase, event) ==
    CASE phase = "idle"       /\ event = "listening"  -> "listening"
      [] phase = "listening"  /\ event = "processing" -> "processing"
      [] phase = "listening"  /\ event = "stopped"    -> "stopped"
      [] phase = "processing" /\ event = "speaking"   -> "speaking"
      [] phase = "processing" /\ event = "listening"  -> "listening"
      [] phase = "speaking"   /\ event = "listening"  -> "listening"
      [] OTHER -> "bad"

RECURSIVE PhaseOf(_)
PhaseOf(events) ==
    IF events = <<>> THEN "idle"
    ELSE PhaseAfter(PhaseOf(SubSeq(events, 1, Len(events) - 1)), Last(events))

\* C18: the statuses of a run are listening, then cycles of processing,
\* optionally speaking, listening, and a run that has returned ended them with
\* one stopped; speaking is emitted only when the TTS backend is then called
C18_StatusSequence ==
    \A r \in Runs :
        /\ PhaseOf(status[r]) # "bad"
        /\ pc[r] \in {"done", "failed"} => PhaseOf(status[r]) = "stopped"
        /\ (pc[r] = "tts_lock" /\ PhaseOf(status[r]) = "speaking") => tts_ready

\* C19: when the STT call or the TTS call of a cycle returned an error, the
\* cycle ends as a no-op: nothing is appended to the playback buffer,
\* "listening" is emitted, and the run is back at the head of its poll loop
C19_BackendErrorIsNoop ==
    [][\A r \in Runs :
          (\/ pc[r] = "filter" /\ loc[r].text = None
           \/ pc[r] = "enqueue" /\ loc[r].audio = None) /\ pc'[r] # pc[r] =>
              /\ audio_output_buffer'[r] = audio_output_buffer[r]
              /\ status'[r] = Append(status[r], "listening")
              /\ pc'[r] = "check"]_vars

\* C19 witness: the synthesis of a cycle returned an error after "speaking"
\* was emitted, and the cycle is about to end
C19_Witness ==
    \E r \in Runs : /\ pc[r] = "enqueue"
                    /\ loc[r].audio = None
                    /\ PhaseOf(status[r]) = "speaking"
                    /\ Len(stt_calls[r]) = 1

\* run r is inside a blocking transcribe or synthesize call
InBackendCall(r) == pc[r] \in {"stt_call", "tts_call"}

\* C20: while the controller thread is inside a blocking STT or TTS call it
\* holds no lock: in particular neither the mutex of the STT backend nor
\* that of the TTS backend, which the control-surface commands also take
C20_NoLockDuringBackendCall ==
    \A r \in Runs : InBackendCall(r) => stt_holder # r /\ tts_holder # r

\* a context that is at a lock operation on a mutex somebody holds
Blocked(c) ==
    /\ InPass(c)
    /\ NextOp(c)[1] = "lock"
    /\ Holders(NextOp(c)[2]) # {}

\* a set of contexts each waiting for a mutex another member (or itself) holds
Deadlocked(S) ==
    /\ S # {}
    /\ \A c \in S : Blocked(c) /\ Holders(NextOp(c)[2]) \subseteq S

\* the mutexes a program holds just before its i-th operation
HeldBefore(prog, i) ==
    {l \in LockNames :
        \E j \in 1..(i - 1) :
            /\ prog[j] = Lock(l)
            /\ \A k \in (j + 1)..(i - 1) : prog[k] # Unlock(l)}

\* <<a, b>>: some program locks b while it holds a
LockOrder ==
    {e \in LockNames \X LockNames :
        \E c \in ContextNames : \E path \in Paths(c) :
            LET prog == Program(c, path) IN
            \E i \in 1..Len(prog) : prog[i] = Lock(e[2]) /\ e[1] \in HeldBefore(prog, i)}

RECURSIVE Reach(_, _)
Reach(from, n) ==
    IF n = 0 THEN from
    ELSE Reach(from \cup {e[2] : e \in {x \in LockOrder : x[1] \in from}}, n - 1)

LockOrderAcyclic ==
    \A l \in LockNames :
        l \notin Reach({e[2] : e \in {x \in LockOrder : x[1] = l}}, Cardinality(LockNames))

\* C21: under every interleaving of the input callback, the output callback,
\* the poll loop and stop(), no set of contexts waits on mutexes held within
\* the set, and the order in which the code nests its locks has no cycle
C21_NoDeadlock ==
    /\ \A S \in SUBSET ContextNames : ~Deadlocked(S)
    /\ LockOrderAcyclic

\* the callback holds last_voice_activity and waits for the segment the poll
\* loop is draining
C21_Witness ==
    /\ Blocked("input")
    /\ NextOp("input") = Lock("audio_input_buffer")
    /\ <<"last_voice_activity", "input">> \in held
    /\ <<"audio_input_buffer", "poll">> \in held

InSeq(k, s) == \E j \in 1..Len(s) : s[j] = k

\* sample k is part of a segment handed to transcribe
Handed(r, k) == \E i \in 1..Len(stt_calls[r]) : InSeq(k, stt_calls[r][i])

SampleIds == 1..(MaxFrames * 2)

\* no further frame follows, and polling goes on for longer than the silence
\* duration
PollingContinues ==
    /\ nframes = MaxFrames
    /\ clock + silence_duration_ms + MIN_SPEECH_DURATION_MS + 200
           <= MaxTicks * 400

\* C22: audio is never lost between cycles: a sample the input callback
\* appended to the segment of a live run is, under continued polling,
\* eventually part of a segment handed to the STT backend
C22_NoAudioLost ==
    \A r \in Runs : \A k \in SampleIds :
        (InSeq(k, audio_input_buffer[r]) /\ PollingContinues) ~> Handed(r, k)

\* the n most recent of the first total capture indices, in arrival order
MostRecent(total, n) == [i \in 1..n |-> total - n + i]

\* C23: after every input-callback invocation on a live run the pre-roll
\* holds exactly the most recent min(capacity, total received) mono samples
\* in arrival order, with capacity = sample_rate * 250 / 1000, and is never
\* longer than the capacity
C23_PreRollMostRecent ==
    \A r \in Runs :
        (pc[r] \in StreamPcs /\ cb[r].pc = "idle") =>
            LET capacity == (dev.rate * 250) \div 1000
            IN /\ pre_roll_buffer[r] = MostRecent(ncaptured, Min(capacity, ncaptured))
               /\ Len(pre_roll_buffer[r]) <= capacity

\* more samples were received than the pre-roll can hold
C23_Witness ==
    \E r \in Runs :
        /\ pc[r] \in StreamPcs
        /\ ncaptured > (dev.rate * 250) \div 1000
        /\ Len(pre_roll_buffer[r]) = (dev.rate * 250) \div 1000

\* C24: configuration errors are not fatal: with no device selected and no
\* default device the run stays live, with no STT model loaded nothing is
\* handed to transcribe, and with no TTS voice nothing is synthesized or
\* enqueued
C24_ConfigErrorsNonFatal ==
    \A r \in Runs :
        /\ ~dev.available => pc[r] # "failed"
        /\ ~stt_loaded => stt_calls[r] = <<>> /\ pc[r] # "stt_call"
        /\ ~tts_ready => audio_output_buffer[r] = <<>> /\ pc[r] # "tts_call"

\* C25: when the TTS rate differs from the output rate and the resampler
\* returns an error, the original synthesized audio is appended to the
\* playback buffer in full and the cycle ends in Listening; when the rates
\* are equal the audio is appended unchanged and the resampler is not invoked
C25_ResampleFallback ==
    [][\A r \in Runs :
        (pc[r] = "enqueue" /\ pc'[r] # "enqueue" /\ IsSome(loc[r].audio)) =>
            LET audio == Unwrap(loc[r].audio)
                arm   == Unwrap(loc[r].resampled).arm
            IN /\ (dev.out_rate # TTS_SAMPLE_RATE /\ arm = "err") =>
                     /\ audio_output_buffer'[r] = audio_output_buffer[r] \o audio
                     /\ Last(status'[r]) = "listening"
                     /\ pc'[r] = "check"
               /\ dev.out_rate = TTS_SAMPLE_RATE =>
                     /\ arm = "same"
                     /\ audio_output_buffer'[r] = audio_output_buffer[r] \o audio
    ]_vars

\* unresampled audio in the playback buffer of a device running at another rate
C25_Witness ==
    \E r \in Runs :
        /\ dev.out_rate # TTS_SAMPLE_RATE
        /\ audio_output_buffer[r] # <<>>
        /\ Last(audio_output_buffer[r])[3] = "raw"
        /\ Last(status[r]) = "listening"

\* C26: a non-speech frame delivered while a session is open is appended to
\* the segment if and only if now - last_activity < POST_ROLL_MS (200 ms);
\* the callback changes neither speech_start nor last_activity
C26_PostRollWindow ==
    [][\A r \in Runs :
        (cb[r].pc = "post_roll" /\ cb'[r].pc # "post_roll") =>
            LET last == last_voice_activity[r]
                kept == IsSome(last) /\ cb[r].now - Unwrap(last) < 200
            IN /\ audio_input_buffer'[r] =
                     IF kept THEN audio_input_buffer[r] \o Ids(cb[r])
                     ELSE audio_input_buffer[r]
               /\ speech_start'[r] = speech_start[r]
               /\ last_voice_activity'[r] = last
    ]_vars

\* the silent frame 100 ms after the last speech was kept and the one 200 ms
\* after it was not
C26_Witness ==
    \E r \in Runs :
        LET k    == (ScenWarmMs + ScenSpeechMs) \div ScenFrameMs + 1
            n    == ScenSamples(ScenFrameMs)
        IN /\ nframes > k
           /\ cb[r].pc = "idle"
           /\ InSeq((k - 1) * n + 1, audio_input_buffer[r])
           /\ ~InSeq(k * n + 1, audio_input_buffer[r])

\* C27: a poll tick at which a flush condition fails (the silence condition
\* holds but now - speech_start < 300 ms, or any other failure) leaves the
\* segment, speech_start and last_activity unchanged and emits no status; the
\* flush that follows once both conditions hold takes the segment whole
C27_DeclinedTickIsNoop ==
    [][\A r \in Runs :
        /\ (pc[r] = "eval" /\ pc'[r] # "eval") =>
              LET last  == last_voice_activity[r]
                  start == speech_start[r]
                  due   == /\ IsSome(last) /\ IsSome(start)
                           /\ loc[r].now - Unwrap(last) >= silence_duration_ms
                           /\ loc[r].now - Unwrap(start) >= 300
              IN ~due =>
                    /\ pc'[r] = "check"
                    /\ audio_input_buffer'[r] = audio_input_buffer[r]
                    /\ speech_start'[r] = start
                    /\ last_voice_activity'[r] = last
                    /\ status'[r] = status[r]
        /\ (pc[r] = "drain" /\ pc'[r] # "drain") =>
              /\ loc'[r].buffer = audio_input_buffer[r]
              /\ audio_input_buffer'[r] = <<>>
    ]_vars

\* the poll loop has just declined to flush a session whose silence condition
\* holds and whose speech is younger than 300 ms
C27_Witness ==
    \E r \in Runs :
        /\ pc[r] = "check"
        /\ IsSome(speech_start[r]) /\ IsSome(last_voice_activity[r])
        /\ Unwrap(speech_start[r]) < clock
        /\ clock - Unwrap(last_voice_activity[r]) >= silence_duration_ms
        /\ clock - Unwrap(speech_start[r]) < 300
        /\ audio_input_buffer[r] # <<>>

\* C28: in every reachable state in which speech_start is None the segment
\* buffer is empty, so that every segment handed to STT starts with the
\* pre-roll captured when its session opened
C28_ClosedSessionEmptySegment ==
    \A r \in Runs : speech_start[r] = None => audio_input_buffer[r] = <<>>

\* C29: outside a callback invocation in progress and a flush in progress,
\* speech_start is Some exactly when last_activity is Some
C29_TimestampsTogether ==
    \A r \in Runs :
        (cb[r].pc = "idle" /\ pc[r] \notin {"drain", "reset_start", "reset_last"}) =>
            (IsSome(speech_start[r]) <=> IsSome(last_voice_activity[r]))

\* C30: the flush condition the poll loop decided on still holds when it
\* drains the segment: no callback has moved last_activity in between
C30_FlushConditionAtDrain ==
    \A r \in Runs :
        pc[r] = "drain" =>
            /\ IsSome(last_voice_activity[r]) /\ IsSome(speech_start[r])
            /\ clock - Unwrap(last_voice_activity[r]) >= silence_duration_ms
            /\ clock - Unwrap(speech_start[r]) >= MIN_SPEECH_DURATION_MS

\* the segments run r has drained so far: those handed to transcribe and the
\* one the poll loop has just taken
Drained(r) ==
    stt_calls[r] \o (IF pc[r] \in {"reset_start", "reset_last", "stt_lock"}
                     THEN <<loc[r].buffer>> ELSE <<>>)

\* C31: whatever the silence duration and the input, no captured sample
\* occurs twice inside one drained segment nor in two drained segments: the
\* pre-roll prepended at a session's onset never overlaps frames already
\* appended to this or an earlier segment
C31_NoSampleTwice ==
    \A r \in Runs :
        LET segs == Drained(r)
        IN /\ \A i \in 1..Len(segs) : \A j1, j2 \in 1..Len(segs[i]) :
                 segs[i][j1] = segs[i][j2] => j1 = j2
           /\ \A i1, i2 \in 1..Len(segs) :
                 i1 # i2 => \A k \in SampleIds : ~(InSeq(k, segs[i1]) /\ InSeq(k, segs[i2]))

\* C32: every run that has allocated its cancellation flag, has not returned
\* and whose flag is unset is the run whose flag is stored in stop_signal,
\* and is_running() is true while there is one (whenever no lifecycle
\* operation is midway): no run is left with a flag that stop() can no
\* longer set
C32_NoOrphanRun ==
    Settled =>
        \A r \in Runs :
            (Entered(r) /\ ~flag[r]) => (stop_signal = Some(r) /\ is_running)

====
